---- MODULE Spec2Model ----
(* A model of the two extraction pipelines of the repository:               *)
(*   src/pro2.py          procurement variant  (character-bounded chunks)   *)
(*   src/toll_extract.py  financial variant    (row-bounded chunks)         *)
(* Strings are sequences of one-character strings.                          *)
EXTENDS Integers, Sequences, FiniteSets, TLC

VARIABLES
  \* build_chunks applied to one page text
  cText, cMax, cPolicy, cChunks,
  \* safe_json_parse applied to one response
  jText, jDone, jResult,
  \* one run of run_pipeline and save_output
  variant,      \* "pro2" or "toll": which file runs
  END_PAGE,     \* the configured last page
  doc,          \* pdf.pages: the kinds of the pages of the opened document
  pc,           \* "start", "loop", "chunks", "returned", "done", "aborted"
  pdfOpen,      \* the handle of pdfplumber.open is held
  page_no,      \* the loop variable of run_pipeline
  chunk_no,     \* the place of the chunk loop in the page's chunks, from 1
  all_rows,     \* the accumulated rows
  raisedIn,     \* the call whose exception ended the run, or "none"
  csv,          \* the table written by to_csv, and how many times
  visited,      \* history: the page numbers handed to pdf.pages[...]
  ocrd,         \* history: the page numbers handed to ocr_page
  raw_rows,     \* history: the rows as parsed, before annotation
  row_page      \* history: the page each accumulated row came from

cvars == <<cText, cMax, cPolicy, cChunks>>
jvars == <<jText, jDone, jResult>>
pvars == <<variant, END_PAGE, doc, pc, pdfOpen, page_no, chunk_no, all_rows,
           raisedIn, csv, visited, ocrd, raw_rows, row_page>>
vars == <<cvars, jvars, pvars>>

----------------------------------------------------------------------------
(* Bounds of the model                                                      *)
MaxTextLen == 5
MaxThreshold == 3
MaxRespLen == 6
MaxPages == 2

----------------------------------------------------------------------------
(* Python str helpers                                                       *)
SP == " "
NL == "\n"
Chars == {"a", "b", SP, NL}
None == <<"None">>

IsSpace(c) == c \in {SP, NL}

\* str.strip(): drop leading and trailing whitespace
Strip(s) ==
  IF \A i \in 1..Len(s) : IsSpace(s[i]) THEN <<>>
  ELSE LET lo == CHOOSE i \in 1..Len(s) :
                   ~IsSpace(s[i]) /\ \A j \in 1..(i - 1) : IsSpace(s[j])
           hi == CHOOSE i \in 1..Len(s) :
                   ~IsSpace(s[i]) /\ \A j \in (i + 1)..Len(s) : IsSpace(s[j])
       IN SubSeq(s, lo, hi)

\* str.splitlines(): split at line breaks; no empty last line
RECURSIVE SplitFrom(_, _)
SplitFrom(s, i) ==
  IF i > Len(s) THEN <<>>
  ELSE LET brk == {j \in i..Len(s) : s[j] = NL}
       IN IF brk = {} THEN <<SubSeq(s, i, Len(s))>>
          ELSE LET j == CHOOSE j \in brk : \A k \in brk : j <= k
               IN <<SubSeq(s, i, j - 1)>> \o SplitFrom(s, j + 1)

splitlines(s) == SplitFrom(s, 1)

RECURSIVE Concat(_)
Concat(seqs) == IF seqs = <<>> THEN <<>> ELSE seqs[1] \o Concat(Tail(seqs))

Min(S) == CHOOSE x \in S : \A y \in S : x <= y
Max(S) == CHOOSE x \in S : \A y \in S : y <= x

\* sep.join(parts)
RECURSIVE Join(_, _)
Join(sep, parts) ==
  IF parts = <<>> THEN <<>>
  ELSE IF Len(parts) = 1 THEN parts[1]
  ELSE parts[1] \o sep \o Join(sep, Tail(parts))

----------------------------------------------------------------------------
(* Chunking                                                                 *)

\* pro2.build_chunks: one pass of the for loop over lines, then the flush
RECURSIVE pro2_loop(_, _, _, _, _, _)
pro2_loop(lines, i, pno, max_chars, out, buf) ==
  IF i > Len(lines)
  THEN IF Strip(buf) # <<>>
       THEN Append(out, [page |-> pno, text |-> Strip(buf)])
       ELSE out
  ELSE LET line == lines[i]
           buf1 == IF Strip(line) # <<>> THEN buf \o line \o <<SP>> ELSE buf
       IN IF Len(buf1) >= max_chars
          THEN pro2_loop(lines, i + 1, pno, max_chars,
                         Append(out, [page |-> pno, text |-> Strip(buf1)]), <<>>)
          ELSE pro2_loop(lines, i + 1, pno, max_chars, out, buf1)

pro2_build_chunks(text, pno, max_chars) ==
  pro2_loop(splitlines(text), 1, pno, max_chars, <<>>, <<>>)

\* toll_extract.build_chunks: buf is a list of lines
RECURSIVE toll_loop(_, _, _, _, _, _)
toll_loop(lines, i, pno, max_rows, out, buf) ==
  IF i > Len(lines)
  THEN IF buf # <<>>
       THEN Append(out, [page |-> pno, text |-> Join(<<NL>>, buf)])
       ELSE out
  ELSE LET line == lines[i]
           buf1 == IF Strip(line) # <<>> THEN Append(buf, line) ELSE buf
       IN IF Len(buf1) >= max_rows
          THEN toll_loop(lines, i + 1, pno, max_rows,
                         Append(out, [page |-> pno, text |-> Join(<<NL>>, buf1)]), <<>>)
          ELSE toll_loop(lines, i + 1, pno, max_rows, out, buf1)

\* toll_extract.build_chunks without the flush of the remainder
toll_build_chunks_noflush(text, pno, max_rows) ==
  LET c == toll_loop(splitlines(text), 1, pno, max_rows, <<>>, <<>>)
  IN IF c # <<>> /\ Len(splitlines(c[Len(c)].text)) < max_rows
     THEN SubSeq(c, 1, Len(c) - 1) ELSE c

toll_build_chunks(text, pno, max_rows) ==
  toll_loop(splitlines(text), 1, pno, max_rows, <<>>, <<>>)

----------------------------------------------------------------------------
(* JSON text as a sequence of tokens: the structural characters, a          *)
(* whitespace character, a prose character (legal nowhere in JSON outside a *)
(* string), object keys (a quoted name with its colon) and scalar literals. *)
LB == "["
RB == "]"
LC == "{"
RC == "}"
CM == ","
WS == " "
PROSE == "p"
KeyToks == {"source_url", "agency", "asset_type", "segment"}
ScalarToks == {"1", "null", "'x'", "'y'", "'m'"}

\* Python values: t is the type, s the characters of a str or number (the
\* name of a dict key), items the elements of a list (the members of a dict)
Val(t, s, items) == [t |-> t, s |-> s, items |-> items]
PyNone == Val("null", <<>>, <<>>)
PyStr(chars) == Val("str", chars, <<>>)
PyList(items) == Val("list", <<>>, items)
PyDict(members) == Val("dict", <<>>, members)
Member(key, v) == Val("member", <<key>>, <<v>>)
EmptyList == PyList(<<>>)

ScalarVal(tok) ==
  CASE tok = "1" -> Val("num", <<"1">>, <<>>)
    [] tok = "null" -> PyNone
    [] tok = "'x'" -> PyStr(<<"x">>)
    [] tok = "'y'" -> PyStr(<<"y">>)
    [] OTHER -> PyStr(<<"m">>)

HasKey(d, key) == \E i \in 1..Len(d.items) : d.items[i].s = <<key>>
DictGet(d, key) ==
  LET i == CHOOSE i \in 1..Len(d.items) : d.items[i].s = <<key>>
  IN d.items[i].items[1]
\* d[key] = v: an existing key keeps its position
DictSet(d, key, v) ==
  IF HasKey(d, key)
  THEN PyDict([i \in 1..Len(d.items) |->
                 IF d.items[i].s = <<key>> THEN Member(key, v) ELSE d.items[i]])
  ELSE PyDict(Append(d.items, Member(key, v)))
\* d.setdefault(key, v)
DictSetDefault(d, key, v) == IF HasKey(d, key) THEN d ELSE DictSet(d, key, v)

\* the first position at or after i that holds no whitespace
SkipWs(s, i) ==
  LET stop == {j \in i..Len(s) : s[j] # WS}
  IN IF stop = {} THEN Len(s) + 1 ELSE CHOOSE j \in stop : \A k \in stop : j <= k

Fail == [ok |-> FALSE, next |-> 0, val |-> PyNone]
Ok(next, v) == [ok |-> TRUE, next |-> next, val |-> v]

\* json.loads, by recursive descent: a value starting at position i
RECURSIVE ParseValue(_, _), ParseElems(_, _, _), ParseMembers(_, _, _)
ParseValue(s, i) ==
  IF i > Len(s) THEN Fail
  ELSE IF s[i] \in ScalarToks THEN Ok(i + 1, ScalarVal(s[i]))
  ELSE IF s[i] = LB THEN
    LET j == SkipWs(s, i + 1)
    IN IF j <= Len(s) /\ s[j] = RB THEN Ok(j + 1, EmptyList) ELSE ParseElems(s, j, <<>>)
  ELSE IF s[i] = LC THEN
    LET j == SkipWs(s, i + 1)
    IN IF j <= Len(s) /\ s[j] = RC THEN Ok(j + 1, PyDict(<<>>))
       ELSE ParseMembers(s, j, PyDict(<<>>))
  ELSE Fail

ParseElems(s, j, acc) ==
  LET r == ParseValue(s, j)
  IN IF ~r.ok THEN Fail
     ELSE LET k == SkipWs(s, r.next)
          IN IF k > Len(s) THEN Fail
             ELSE IF s[k] = CM THEN ParseElems(s, SkipWs(s, k + 1), Append(acc, r.val))
             ELSE IF s[k] = RB THEN Ok(k + 1, PyList(Append(acc, r.val)))
             ELSE Fail

ParseMembers(s, j, acc) ==
  IF j > Len(s) \/ s[j] \notin KeyToks THEN Fail
  ELSE LET r == ParseValue(s, SkipWs(s, j + 1))
       IN IF ~r.ok THEN Fail
          ELSE LET k == SkipWs(s, r.next)
                   d == DictSet(acc, s[j], r.val)
               IN IF k > Len(s) THEN Fail
                  ELSE IF s[k] = CM THEN ParseMembers(s, SkipWs(s, k + 1), d)
                  ELSE IF s[k] = RC THEN Ok(k + 1, d)
                  ELSE Fail

\* json.loads(text): [ok, val]; not ok is JSONDecodeError (TypeError for None)
json_loads(text) ==
  IF text = None THEN Fail
  ELSE LET r == ParseValue(text, SkipWs(text, 1))
       IN IF r.ok /\ SkipWs(text, r.next) > Len(text) THEN r ELSE Fail

\* the end of the match of {.*?}\s*\] for the { at position b: the first }
\* after b that is followed, after whitespace, by ]
MatchEnds(s, b) ==
  {SkipWs(s, j + 1) : j \in {j \in (b + 1)..Len(s) :
      s[j] = RC /\ SkipWs(s, j + 1) <= Len(s) /\ s[SkipWs(s, j + 1)] = RB}}

MatchStarts(s) ==
  {i \in 1..Len(s) : /\ s[i] = LB
                     /\ SkipWs(s, i + 1) <= Len(s)
                     /\ s[SkipWs(s, i + 1)] = LC
                     /\ MatchEnds(s, SkipWs(s, i + 1)) # {}}

\* the same search with a greedy .* in place of the lazy .*?
re_search_greedy(s) ==
  IF MatchStarts(s) = {} THEN [found |-> FALSE, from |-> 0, to |-> 0]
  ELSE LET i == Min(MatchStarts(s))
       IN [found |-> TRUE, from |-> i, to |-> Max(MatchEnds(s, SkipWs(s, i + 1)))]

\* re.search(r"\[\s*{.*?}\s*\]", text, re.DOTALL): leftmost start, lazy end
re_search(s) ==
  IF MatchStarts(s) = {} THEN [found |-> FALSE, from |-> 0, to |-> 0]
  ELSE LET i == Min(MatchStarts(s))
       IN [found |-> TRUE, from |-> i, to |-> Min(MatchEnds(s, SkipWs(s, i + 1)))]

\* safe_json_parse(text): raised is an exception leaving the function
safe_json_parse(text) ==
  IF json_loads(text).ok THEN [raised |-> FALSE, val |-> json_loads(text).val]
  ELSE IF text = None THEN [raised |-> TRUE, val |-> PyNone]
  ELSE LET m == re_search(text)
       IN IF m.found
          THEN LET r == json_loads(SubSeq(text, m.from, m.to))
               IN [raised |-> FALSE, val |-> IF r.ok THEN r.val ELSE EmptyList]
          ELSE [raised |-> FALSE, val |-> EmptyList]

----------------------------------------------------------------------------
(* Configuration of the two files                                           *)
START_PAGE == 1
MIN_TEXT == 50
DEFAULT_MAX_CHARS == 2000
DEFAULT_MAX_ROWS == 30
SOURCE_URL == PyStr(<<"U">>)
AGENCY == PyStr(<<"A">>)
ASSET_TYPE == PyStr(<<"T">>)

----------------------------------------------------------------------------
(* Page text acquisition                                                    *)
Rep(n, c) == [i \in 1..n |-> c]
Digits == <<"0", "1", "2", "3", "4", "5", "6", "7", "8", "9">>

\* df.replace("\n", " ", regex=True) on one cell
ReplaceNL(cell) == [i \in 1..Len(cell) |-> IF cell[i] = NL THEN SP ELSE cell[i]]

\* pd.DataFrame(t).to_csv(index=False): a header of column numbers, then one
\* line per row, every line ended by a line break
to_csv_block(t) ==
  LET ncols == IF t = <<>> THEN 0 ELSE Max({Len(t[r]) : r \in 1..Len(t)})
      header == Join(<<",">>, [c \in 1..ncols |-> <<Digits[c]>>])
      line(r) == Join(<<",">>, [c \in 1..ncols |->
                     IF c <= Len(t[r]) THEN ReplaceNL(t[r][c]) ELSE <<>>])
  IN Concat(<<header \o <<NL>>>> \o [r \in 1..Len(t) |-> line(r) \o <<NL>>])

\* toll_extract.tables_to_text
tables_to_text(tables) ==
  Join(<<NL, NL>>, [i \in 1..Len(tables) |-> to_csv_block(tables[i])])

\* "not text": None and the empty string are falsy
Falsy(text) == text = None \/ text = <<>>

\* the OCR condition with <= in place of <
NativeOrOcr_le(page) ==
  IF Falsy(page.native) \/ Len(Strip(page.native)) <= MIN_TEXT
  THEN [text |-> page.ocr, ocr |-> TRUE]
  ELSE [text |-> page.native, ocr |-> FALSE]

\* text = page.extract_text(); OCR when absent or shorter than 50 stripped
NativeOrOcr(page) ==
  IF Falsy(page.native) \/ Len(Strip(page.native)) < MIN_TEXT
  THEN [text |-> page.ocr, ocr |-> TRUE]
  ELSE [text |-> page.native, ocr |-> FALSE]

\* the text of a page and whether ocr_page was called for it
AcquireText(v, page) ==
  IF v = "toll" /\ page.tables # <<>>
  THEN [text |-> tables_to_text(page.tables), ocr |-> FALSE]
  ELSE NativeOrOcr(page)

build_chunks(v, text, p) ==
  IF v = "pro2" THEN pro2_build_chunks(text, p, DEFAULT_MAX_CHARS)
  ELSE toll_build_chunks(text, p, DEFAULT_MAX_ROWS)

----------------------------------------------------------------------------
(* Annotation of the rows of one chunk                                      *)

\* what "for r in rows" yields: list elements, dict keys, str characters
Iterable(v) == v.t \in {"list", "dict", "str"}
Elements(v) ==
  IF v.t = "list" THEN v.items
  ELSE IF v.t = "dict" THEN [i \in 1..Len(v.items) |-> PyStr(v.items[i].s)]
  ELSE [i \in 1..Len(v.s) |-> PyStr(<<v.s[i]>>)]

\* pro2: r["source_url"] = SOURCE_URL
pro2_annotate(r) == DictSet(r, "source_url", SOURCE_URL)

\* toll_extract: three setdefault calls
toll_annotate(r) ==
  DictSetDefault(DictSetDefault(DictSetDefault(r, "asset_type", ASSET_TYPE),
                                "agency", AGENCY),
                 "source_url", SOURCE_URL)

\* the loop over the parsed rows: it raises (TypeError, AttributeError) when
\* rows cannot be iterated or an element is not a dict
Annotate(v, rows) ==
  IF ~Iterable(rows) \/ \E i \in 1..Len(Elements(rows)) : Elements(rows)[i].t # "dict"
  THEN [raised |-> TRUE, rows |-> <<>>]
  ELSE [raised |-> FALSE,
        rows |-> [i \in 1..Len(Elements(rows)) |->
                    IF v = "pro2" THEN pro2_annotate(Elements(rows)[i])
                    ELSE toll_annotate(Elements(rows)[i])]]

----------------------------------------------------------------------------
(* Normalisation, the data frame and deduplication                          *)

\* str(x) of a value; repr inside containers
RECURSIVE PyRepr(_)
PyRepr(v) ==
  CASE v.t = "str" -> <<"'">> \o v.s \o <<"'">>
    [] v.t = "num" -> v.s
    [] v.t = "null" -> <<"N", "o", "n", "e">>
    [] v.t = "list" -> <<"[">> \o Join(<<",", " ">>, [i \in 1..Len(v.items) |-> PyRepr(v.items[i])]) \o <<"]">>
    [] v.t = "member" -> <<"'">> \o v.s \o <<"'", ":", " ">> \o PyRepr(v.items[1])
    [] OTHER -> <<"{">> \o Join(<<",", " ">>, [i \in 1..Len(v.items) |-> PyRepr(v.items[i])]) \o <<"}">>

str(v) == IF v.t = "str" THEN v.s ELSE PyRepr(v)

\* pro2.normalize_rows on one row: a list becomes ", ".join(str(x) for x in v)
normalize_row(r) ==
  PyDict([i \in 1..Len(r.items) |->
            LET val == r.items[i].items[1]
            IN IF val.t = "list"
               THEN Member(r.items[i].s[1],
                           PyStr(Join(<<",", " ">>, [k \in 1..Len(val.items) |-> str(val.items[k])])))
               ELSE r.items[i]])

normalize_rows(rows) == [i \in 1..Len(rows) |-> normalize_row(rows[i])]

\* the keys of the rows in order of first appearance: the columns
RECURSIVE AddKeys(_, _)
AddKeys(cols, keys) ==
  IF keys = <<>> THEN cols
  ELSE AddKeys(IF \E i \in 1..Len(cols) : cols[i] = keys[1] THEN cols ELSE Append(cols, keys[1]),
               Tail(keys))
RECURSIVE Columns(_)
Columns(rows) ==
  IF rows = <<>> THEN <<>>
  ELSE AddKeys(Columns(SubSeq(rows, 1, Len(rows) - 1)),
               [i \in 1..Len(rows[Len(rows)].items) |-> rows[Len(rows)].items[i].s[1]])

NA == Val("na", <<>>, <<>>)
\* a missing key and a null are both missing values of the frame
Cell(r, col) == IF HasKey(r, col) /\ DictGet(r, col).t # "null" THEN DictGet(r, col) ELSE NA

\* pd.DataFrame(rows)
DataFrame(rows) ==
  LET cols == Columns(rows)
  IN [columns |-> cols,
      rows |-> [i \in 1..Len(rows) |-> [c \in 1..Len(cols) |-> Cell(rows[i], cols[c])]]]

\* lists and dicts cannot be hashed: drop_duplicates raises TypeError on them
Hashable(df) ==
  \A i \in 1..Len(df.rows) : \A c \in 1..Len(df.columns) : df.rows[i][c].t \notin {"list", "dict"}

\* the rows from position i on that differ from every row after them
RECURSIVE LastOccurrences(_, _)
LastOccurrences(rows, i) ==
  IF i > Len(rows) THEN <<>>
  ELSE (IF \A j \in (i + 1)..Len(rows) : rows[j] # rows[i] THEN <<rows[i]>> ELSE <<>>)
       \o LastOccurrences(rows, i + 1)

\* the rows from position i on that differ from every row before them
RECURSIVE FirstOccurrences(_, _)
FirstOccurrences(rows, i) ==
  IF i > Len(rows) THEN <<>>
  ELSE (IF \A j \in 1..(i - 1) : rows[j] # rows[i] THEN <<rows[i]>> ELSE <<>>)
       \o FirstOccurrences(rows, i + 1)

\* drop_duplicates(keep="last")
drop_duplicates_last(df) ==
  [columns |-> df.columns, rows |-> LastOccurrences(df.rows, 1)]

\* df.drop_duplicates(): the first of equal rows is kept
drop_duplicates(df) ==
  [columns |-> df.columns, rows |-> FirstOccurrences(df.rows, 1)]

----------------------------------------------------------------------------
(* The documents and the responses of the model service of a run            *)
LongPage == [tables |-> <<>>, native |-> Rep(MIN_TEXT, "a"), ocr |-> <<"z">>]
ShortPage == [tables |-> <<>>, native |-> Rep(MIN_TEXT - 1, "a") \o <<SP, SP>>,
              ocr |-> Rep(DEFAULT_MAX_CHARS - 1, "a") \o <<NL, "b">>]
BlankPage == [tables |-> <<>>, native |-> None, ocr |-> <<>>]
TablePage == [tables |-> <<Rep(DEFAULT_MAX_ROWS, <<<<"7">>>>)>>, native |-> None, ocr |-> <<"z">>]
PageKinds == {"long", "short", "blank", "table"}
Page(kind) ==
  CASE kind = "long" -> LongPage
    [] kind = "short" -> ShortPage
    [] kind = "blank" -> BlankPage
    [] OTHER -> TablePage

RespRow == <<LB, LC, "segment", "'x'", RC, RB>>
RespUrl == <<LB, LC, "source_url", "'m'", CM, WS, "segment", "'x'", RC, RB>>
RespProse == <<PROSE, PROSE>>
RespObject == <<LC, "segment", "'x'", RC>>
RespList == <<LB, LC, "segment", LB, "'x'", CM, WS, "'y'", RB, RC, RB>>
PipeResponses == {RespRow, RespUrl, RespProse, RespObject, RespList, None}

----------------------------------------------------------------------------
(* The parts of the state a specification does not use stay idle           *)
JIdle == jText = <<>> /\ jDone = FALSE /\ jResult = [raised |-> FALSE, val |-> PyNone]
CIdle == cText = <<>> /\ cMax = 1 /\ cPolicy = "none" /\ cChunks = <<>>

NoCsv == [writes |-> 0, columns |-> <<>>, rows |-> <<>>]

PIdle ==
  /\ variant = "none" /\ END_PAGE = 0 /\ doc = <<>> /\ pc = "idle" /\ pdfOpen = FALSE
  /\ page_no = 0 /\ chunk_no = 0 /\ all_rows = <<>> /\ raisedIn = "none" /\ csv = NoCsv
  /\ visited = <<>> /\ ocrd = <<>> /\ raw_rows = <<>> /\ row_page = <<>>

----------------------------------------------------------------------------
(* Specification of the chunkers: a page text and a threshold are drawn,    *)
(* then one of the two build_chunks is applied.                             *)
Texts == UNION {[1..n -> Chars] : n \in 0..MaxTextLen}

CInit ==
  /\ cText \in Texts
  /\ cMax \in 1..MaxThreshold
  /\ cPolicy = "none"
  /\ cChunks = <<>>

ChunkByChars ==
  /\ cPolicy = "none"
  /\ cPolicy' = "chars"
  /\ cChunks' = pro2_build_chunks(cText, 1, cMax)
  /\ UNCHANGED <<cText, cMax>>
  /\ UNCHANGED <<jvars, pvars>>

ChunkByRows ==
  /\ cPolicy = "none"
  /\ cPolicy' = "rows"
  /\ cChunks' = toll_build_chunks(cText, 1, cMax)
  /\ UNCHANGED <<cText, cMax>>
  /\ UNCHANGED <<jvars, pvars>>

CNext == ChunkByChars \/ ChunkByRows

InitChunk == CInit /\ JIdle /\ PIdle

SpecChunk == InitChunk /\ [][CNext]_vars

----------------------------------------------------------------------------
(* Specification of the parser: a response text is drawn (None is a         *)
(* response without text), then safe_json_parse is applied.                 *)
ParseToks == {LB, RB, LC, RC, CM, WS, PROSE, "segment", "1"}

JInit ==
  /\ \/ \E n \in 0..MaxRespLen : jText \in [1..n -> ParseToks]
     \/ jText = None
  /\ jDone = FALSE
  /\ jResult = [raised |-> FALSE, val |-> PyNone]

Parse ==
  /\ ~jDone
  /\ jDone' = TRUE
  /\ jResult' = safe_json_parse(jText)
  /\ UNCHANGED jText
  /\ UNCHANGED <<cvars, pvars>>

JNext == Parse

InitParse == JInit /\ CIdle /\ PIdle

SpecParse == InitParse /\ [][JNext]_vars

IsRows(v) == v.t = "list" /\ \A i \in 1..Len(v.items) : v.items[i].t = "dict"


----------------------------------------------------------------------------
(* run_pipeline and save_output                                             *)
PInit ==
  /\ variant \in {"pro2", "toll"}
  /\ END_PAGE \in 0..(MaxPages + 1)
  /\ \E n \in 0..MaxPages : doc \in [1..n -> PageKinds]
  /\ pc = "start" /\ pdfOpen = FALSE
  /\ page_no = 0 /\ chunk_no = 0 /\ all_rows = <<>> /\ raisedIn = "none" /\ csv = NoCsv
  /\ visited = <<>> /\ ocrd = <<>> /\ raw_rows = <<>> /\ row_page = <<>>

\* the last page of the loop's range
LastPage ==
  IF variant = "pro2" THEN END_PAGE
  ELSE LET total_pages == Len(doc)
           end_page == IF END_PAGE # 0 THEN END_PAGE ELSE total_pages
       IN IF end_page < total_pages THEN end_page ELSE total_pages

\* an exception leaves run_pipeline: the with statement closes the document
\* the text of every kind of page and its chunks at every page number, worked
\* out once: text acquisition, the skip of an empty text, build_chunks
PageChunks ==
  [v \in {"pro2", "toll"} |-> [k \in PageKinds |-> [p \in 1..MaxPages |->
     LET got == AcquireText(v, Page(k))
     IN [ocr |-> got.ocr,
         chunks |-> IF Falsy(got.text) THEN <<>> ELSE build_chunks(v, got.text, p)]]]]

\* chunks = build_chunks(text, page_no) of the page the loop is at
Chunks == PageChunks[variant][doc[page_no]][page_no].chunks

Abort(where) ==
  /\ pc' = "aborted"
  /\ raisedIn' = where
  /\ pdfOpen' = FALSE

\* with pdfplumber.open(PDF_PATH) as pdf: ... range(START_PAGE, ...)
Open ==
  /\ pc = "start"
  /\ pc' = "loop"
  /\ pdfOpen' = TRUE
  /\ page_no' = START_PAGE
  /\ UNCHANGED <<variant, END_PAGE, doc, chunk_no, all_rows, raisedIn, csv,
                 visited, ocrd, raw_rows, row_page>>
  /\ UNCHANGED <<cvars, jvars>>

\* one iteration of the page loop up to the chunk loop
NextPage ==
  /\ pc = "loop"
  /\ page_no <= LastPage
  /\ visited' = Append(visited, page_no)
  /\ IF page_no > Len(doc)
     THEN /\ Abort("pdf.pages")
          /\ UNCHANGED <<page_no, chunk_no, ocrd>>
     ELSE LET got == PageChunks[variant][doc[page_no]][page_no]
              none == Chunks = <<>>
          IN /\ ocrd' = IF got.ocr THEN Append(ocrd, page_no) ELSE ocrd
             /\ chunk_no' = IF none THEN 0 ELSE 1
             /\ pc' = IF none THEN "loop" ELSE "chunks"
             /\ page_no' = IF none THEN page_no + 1 ELSE page_no
             /\ UNCHANGED <<raisedIn, pdfOpen>>
  /\ UNCHANGED <<variant, END_PAGE, doc, all_rows, csv, raw_rows, row_page>>
  /\ UNCHANGED <<cvars, jvars>>

\* one iteration of the chunk loop: the model answers with response
MapChunk ==
  /\ pc = "chunks"
  /\ LET last == chunk_no = Len(Chunks)
     IN \E response \in PipeResponses :
          LET parsed == safe_json_parse(response)
              ann == Annotate(variant, parsed.val)
          IN IF parsed.raised
             THEN /\ Abort("safe_json_parse")
                  /\ UNCHANGED <<page_no, chunk_no, all_rows, raw_rows, row_page>>
             ELSE IF ann.raised
             THEN /\ Abort("annotate")
                  /\ UNCHANGED <<page_no, chunk_no, all_rows, raw_rows, row_page>>
             ELSE /\ all_rows' = all_rows \o ann.rows
                  /\ raw_rows' = raw_rows \o Elements(parsed.val)
                  /\ row_page' = row_page \o [i \in 1..Len(ann.rows) |-> page_no]
                  /\ chunk_no' = IF last THEN 0 ELSE chunk_no + 1
                  /\ pc' = IF last THEN "loop" ELSE "chunks"
                  /\ page_no' = IF last THEN page_no + 1 ELSE page_no
                  /\ UNCHANGED <<raisedIn, pdfOpen>>
  /\ UNCHANGED <<variant, END_PAGE, doc, csv, visited, ocrd>>
  /\ UNCHANGED <<cvars, jvars>>

\* generate_content that swallows the failure: the chunk gives no rows
MapChunkFails_swallowed ==
  /\ pc = "chunks"
  /\ LET last == chunk_no = Len(Chunks)
     IN /\ chunk_no' = IF last THEN 0 ELSE chunk_no + 1
        /\ pc' = IF last THEN "loop" ELSE "chunks"
        /\ page_no' = IF last THEN page_no + 1 ELSE page_no
  /\ raisedIn' = "generate_content"
  /\ UNCHANGED <<variant, END_PAGE, doc, pdfOpen, all_rows, csv, visited, ocrd,
                 raw_rows, row_page>>
  /\ UNCHANGED <<cvars, jvars>>

\* client.models.generate_content raises: nothing catches it
MapChunkFails ==
  /\ pc = "chunks"
  /\ Abort("generate_content")
  /\ UNCHANGED <<variant, END_PAGE, doc, page_no, chunk_no, all_rows, csv, visited,
                 ocrd, raw_rows, row_page>>
  /\ UNCHANGED <<cvars, jvars>>

\* the page loop is over: the with block closes the document, return all_rows
Return ==
  /\ pc = "loop"
  /\ page_no > LastPage
  /\ pc' = "returned"
  /\ pdfOpen' = FALSE
  /\ UNCHANGED <<variant, END_PAGE, doc, page_no, chunk_no, all_rows, raisedIn, csv,
                 visited, ocrd, raw_rows, row_page>>
  /\ UNCHANGED <<cvars, jvars>>

\* save_output(data): pro2 normalises the rows in place, toll_extract does not
SaveOutput ==
  /\ pc = "returned"
  /\ LET rows == IF variant = "pro2" THEN normalize_rows(all_rows) ELSE all_rows
         df == DataFrame(rows)
     IN IF all_rows = <<>>
        THEN /\ pc' = "done"
             /\ UNCHANGED <<all_rows, raisedIn, csv>>
        ELSE IF ~Hashable(df)
        THEN /\ pc' = "aborted"
             /\ raisedIn' = "drop_duplicates"
             /\ all_rows' = rows
             /\ UNCHANGED csv
        ELSE /\ pc' = "done"
             /\ all_rows' = rows
             /\ csv' = [writes |-> csv.writes + 1,
                        columns |-> drop_duplicates(df).columns,
                        rows |-> drop_duplicates(df).rows]
             /\ UNCHANGED raisedIn
  /\ UNCHANGED <<variant, END_PAGE, doc, pdfOpen, page_no, chunk_no, visited, ocrd,
                 raw_rows, row_page>>
  /\ UNCHANGED <<cvars, jvars>>

Next == Open \/ NextPage \/ MapChunk \/ MapChunkFails \/ Return \/ SaveOutput

Init == PInit /\ CIdle /\ JIdle

Spec == Init /\ [][Next]_vars

----------------------------------------------------------------------------
(* Properties of the chunkers                                               *)

NonBlank(lines) == SelectSeq(lines, LAMBDA l : Strip(l) # <<>>)

ChunkTexts == [i \in 1..Len(cChunks) |-> cChunks[i].text]
ChunkLines == Concat([i \in 1..Len(cChunks) |-> splitlines(cChunks[i].text)])

\* str.split(): the whitespace-separated words of a string
RECURSIVE Words(_)
Words(s) ==
  LET t == Strip(s)
  IN IF t = <<>> THEN <<>>
     ELSE LET ws == {i \in 1..Len(t) : IsSpace(t[i])}
          IN IF ws = {} THEN <<t>>
             ELSE LET j == CHOOSE j \in ws : \A k \in ws : j <= k
                  IN <<SubSeq(t, 1, j - 1)>> \o Words(SubSeq(t, j, Len(t)))

\* C1: every chunk's size measure is at most the threshold: the character
\* count of its text under the character-bounded policy, its number of lines
\* under the row-bounded policy.
C1_ChunkBound ==
  /\ cPolicy = "chars" => \A i \in 1..Len(cChunks) : Len(cChunks[i].text) <= cMax
  /\ cPolicy = "rows" => \A i \in 1..Len(cChunks) : Len(splitlines(cChunks[i].text)) <= cMax

\* C2 as stated: the chunks, concatenated in emission order, are exactly the
\* non-blank lines of the input, in order (space-joined under the character
\* policy, line by line under the row policy); no non-blank line, no chunk.
C2_LinesPreserved ==
  /\ cPolicy = "chars" => Join(<<SP>>, ChunkTexts) = Join(<<SP>>, NonBlank(splitlines(cText)))
  /\ cPolicy = "rows" => ChunkLines = NonBlank(splitlines(cText))
  /\ cPolicy # "none" /\ NonBlank(splitlines(cText)) = <<>> => cChunks = <<>>

\* C2 amended: under the row policy the chunks hold exactly the non-blank
\* lines in order; under the character policy the chunks hold the same
\* whitespace-separated words in the same order (a line's own leading or
\* trailing whitespace is lost where a chunk starts or ends) and no chunk is
\* empty; no non-blank line, no chunk.
C2_WordsPreserved ==
  /\ cPolicy = "chars" =>
       /\ Concat([i \in 1..Len(cChunks) |-> Words(cChunks[i].text)]) = Words(cText)
       /\ \A i \in 1..Len(cChunks) : cChunks[i].text # <<>>
  /\ cPolicy = "rows" => ChunkLines = NonBlank(splitlines(cText))
  /\ cPolicy # "none" /\ NonBlank(splitlines(cText)) = <<>> => cChunks = <<>>

\* C2 witness: a row-chunked text with a blank line between two chunks
C2_Witness ==
  /\ cPolicy = "rows"
  /\ Len(cChunks) >= 2
  /\ \E i \in 1..Len(splitlines(cText)) : Strip(splitlines(cText)[i]) = <<>>

----------------------------------------------------------------------------
(* Properties of the parser                                                 *)

\* C3: safe_json_parse never raises and returns a sequence of row mappings,
\* whatever the response: absent, not JSON, or JSON that is no array of
\* objects.
C3_NeverRaisesRows == jDone => ~jResult.raised /\ IsRows(jResult.val)

\* the non-empty arrays of objects embedded in s, as position pairs
Embedded(s) ==
  {ij \in (1..Len(s)) \X (1..Len(s)) :
     /\ ij[1] < ij[2]
     /\ s[ij[1]] = LB /\ s[ij[2]] = RB
     /\ LET r == json_loads(SubSeq(s, ij[1], ij[2]))
        IN r.ok /\ IsRows(r.val) /\ r.val.items # <<>>}

RowsOf(s, ij) == json_loads(SubSeq(s, ij[1], ij[2])).val

NoMatchOrBadMatch(s) ==
  \/ ~re_search(s).found
  \/ ~json_loads(SubSeq(s, re_search(s).from, re_search(s).to)).ok

\* C4 as stated: a response that is not JSON as a whole but embeds a valid
\* array of objects parses to exactly the rows of that array; with no pattern
\* match, or a match that is not JSON, the result is the empty sequence.
C4_EmbeddedRecovered ==
  jDone /\ jText # None /\ ~json_loads(jText).ok =>
    /\ \A ij \in Embedded(jText) : jResult = [raised |-> FALSE, val |-> RowsOf(jText, ij)]
    /\ NoMatchOrBadMatch(jText) => jResult = [raised |-> FALSE, val |-> EmptyList]

\* a [ followed, after whitespace, by {
OpensArrayOfObjects(s, a) ==
  s[a] = LB /\ SkipWs(s, a + 1) <= Len(s) /\ s[SkipWs(s, a + 1)] = LC
\* a } followed, after whitespace, by ]
ClosesArrayOfObjects(s, c) ==
  s[c] = RC /\ SkipWs(s, c + 1) <= Len(s) /\ s[SkipWs(s, c + 1)] = RB

\* the embedded array is where the pattern first can start, and no } ] pair
\* closes inside it before its own last bracket
LeftmostFlat(s, ij) ==
  /\ \A a \in 1..(ij[1] - 1) : ~OpensArrayOfObjects(s, a)
  /\ \A c \in ij[1]..ij[2] : ClosesArrayOfObjects(s, c) => SkipWs(s, c + 1) = ij[2]

\* C4 amended: the rows of the embedded array are returned when that array
\* is the first place of the text where [ is followed (after whitespace) by {
\* and no } is followed (after whitespace) by ] inside it before its closing
\* bracket; with no pattern match, or a match that is not JSON, the result is
\* the empty sequence.
C4_LeftmostFlatRecovered ==
  jDone /\ jText # None /\ ~json_loads(jText).ok =>
    /\ \A ij \in Embedded(jText) :
         LeftmostFlat(jText, ij) => jResult = [raised |-> FALSE, val |-> RowsOf(jText, ij)]
    /\ NoMatchOrBadMatch(jText) => jResult = [raised |-> FALSE, val |-> EmptyList]

\* C4 witness: a row recovered from between two stretches of prose
C4_Witness ==
  /\ jDone /\ jText # None /\ Len(jText) >= 1 /\ ~json_loads(jText).ok
  /\ jText[1] = PROSE /\ jText[Len(jText)] = PROSE
  /\ \E ij \in Embedded(jText) :
       LeftmostFlat(jText, ij) /\ jResult.val = RowsOf(jText, ij) /\ Len(jResult.val.items) = 1

----------------------------------------------------------------------------
(* Properties of a run                                                      *)

DocFields == IF variant = "pro2" THEN {"source_url"} ELSE {"source_url", "agency", "asset_type"}
DocDefault(f) ==
  CASE f = "source_url" -> SOURCE_URL [] f = "agency" -> AGENCY [] OTHER -> ASSET_TYPE

\* C5: a row that came from the parser with a document-level field keeps the
\* parser's value; a row without it gets the configured default.
C5_AnnotationKeeps ==
  /\ Len(all_rows) = Len(raw_rows)
  /\ \A i \in 1..Len(all_rows) : \A f \in DocFields :
       /\ HasKey(all_rows[i], f)
       /\ DictGet(all_rows[i], f) =
            IF HasKey(raw_rows[i], f) THEN DictGet(raw_rows[i], f) ELSE DocDefault(f)

\* the last page the run is to reach: END_PAGE capped by the page count
\* (toll_extract reads an END_PAGE of 0 as "to the end")
ClaimedLast ==
  IF variant = "toll" /\ END_PAGE = 0 THEN Len(doc)
  ELSE IF END_PAGE < Len(doc) THEN END_PAGE ELSE Len(doc)

\* C6: pages are taken in ascending order from START_PAGE, each once, never
\* past the last page of the document, and a run that returns has taken all
\* of them up to min(END_PAGE, page count).
C6_PagesInRange ==
  /\ visited = [i \in 1..Len(visited) |-> START_PAGE + i - 1]
  /\ \A i \in 1..Len(visited) : visited[i] <= Len(doc)
  /\ raisedIn # "pdf.pages"
  /\ pc \in {"returned", "done"} => Len(visited) = ClaimedLast - START_PAGE + 1

\* what a field value is to be in the table: a list joined with ", ", a
\* scalar itself (a null is a missing cell)
Coerced(v) ==
  IF v.t = "list"
  THEN PyStr(Join(<<",", " ">>, [k \in 1..Len(v.items) |-> str(v.items[k])]))
  ELSE IF v.t = "null" THEN NA ELSE v

ColumnOf(key) == CHOOSE c \in 1..Len(csv.columns) : csv.columns[c] = key

\* C7: in both variants save_output completes on any accumulated rows, and
\* the written table holds every list-valued field as its ", "-joined string
\* and every scalar field unchanged.
C7_ListsCoerced ==
  /\ raisedIn # "drop_duplicates"
  /\ csv.writes > 0 =>
       /\ \A i \in 1..Len(csv.rows) : \A c \in 1..Len(csv.columns) : csv.rows[i][c].t # "list"
       /\ \A i \in 1..Len(raw_rows) : \A m \in 1..Len(raw_rows[i].items) :
            LET key == raw_rows[i].items[m].s[1]
            IN key \notin DocFields =>
                 \E r \in 1..Len(csv.rows) :
                   csv.rows[r][ColumnOf(key)] = Coerced(raw_rows[i].items[m].items[1])

\* the accumulated rows as rows of the table's columns
SourceRows == [i \in 1..Len(all_rows) |->
                 [c \in 1..Len(csv.columns) |-> Cell(all_rows[i], csv.columns[c])]]
FirstIndex(rows, r) == Min({i \in 1..Len(rows) : rows[i] = r})
\* df.to_dict("records"): the table read back as row mappings
Records ==
  [i \in 1..Len(csv.rows) |->
     PyDict([c \in 1..Len(csv.columns) |->
               Member(csv.columns[c],
                      IF csv.rows[i][c] = NA THEN PyNone ELSE csv.rows[i][c])])]

\* C8: the written table has no two equal rows, holds exactly the distinct
\* accumulated rows, each at the place of its first occurrence, and the
\* normalise-and-deduplicate step applied to the table gives the table back.
C8_DedupFirstOrdered ==
  csv.writes > 0 =>
    /\ \A a, b \in 1..Len(csv.rows) : a # b => csv.rows[a] # csv.rows[b]
    /\ {csv.rows[a] : a \in 1..Len(csv.rows)} = {SourceRows[i] : i \in 1..Len(SourceRows)}
    /\ \A a, b \in 1..Len(csv.rows) :
         a < b => FirstIndex(SourceRows, csv.rows[a]) < FirstIndex(SourceRows, csv.rows[b])
    /\ drop_duplicates(DataFrame(IF variant = "pro2" THEN normalize_rows(Records) ELSE Records))
         = [columns |-> csv.columns, rows |-> csv.rows]

\* C8 witness: a table of two rows written from three accumulated rows
C8_Witness == csv.writes > 0 /\ Len(csv.rows) = 2 /\ Len(all_rows) = 3

\* the OCR condition of a page, read off the document
NeedsOcr(p) ==
  /\ variant = "toll" => Page(doc[p]).tables = <<>>
  /\ \/ Page(doc[p]).native \in {None, <<>>}
     \/ Len(Strip(Page(doc[p]).native)) < MIN_TEXT
FinalText(p) ==
  IF variant = "toll" /\ Page(doc[p]).tables # <<>> THEN tables_to_text(Page(doc[p]).tables)
  ELSE IF NeedsOcr(p) THEN Page(doc[p]).ocr ELSE Page(doc[p]).native

\* C9: ocr_page is called for a processed page exactly when its native text
\* is absent or shorter than 50 characters stripped (and, in toll_extract, no
\* table was found); in the two-page document with a long then a short page
\* only page 2 is OCR'd; a page whose final text is empty gives no chunk and
\* no row.
C9_OcrExactlyWhenShort ==
  /\ ocrd = SelectSeq(visited, LAMBDA p : p <= Len(doc) /\ NeedsOcr(p))
  /\ doc = <<"long", "short">> /\ Len(visited) = 2 => ocrd = <<2>>
  /\ \A i \in 1..Len(visited) :
       visited[i] <= Len(doc) /\ FinalText(visited[i]) \in {None, <<>>} =>
         /\ \A r \in 1..Len(row_page) : row_page[r] # visited[i]
         /\ page_no = visited[i] => pc # "chunks"

\* C9 witness: the two-page scenario, run to its end, after a blank-page run
C9_Witness ==
  /\ doc = <<"long", "short">> /\ pc = "returned" /\ ocrd = <<2>> /\ all_rows # <<>>

\* C10: a failed model-service request ends the run: the run is aborted, the
\* document handle is released, no later step is taken and nothing is
\* written, whatever rows were accumulated; a table is written at most once
\* and only after the last page.
C10_ServiceFailureAborts ==
  /\ raisedIn = "generate_content" =>
       pc = "aborted" /\ ~pdfOpen /\ csv.writes = 0 /\ ~ENABLED Next
  /\ csv.writes <= 1
  /\ csv.writes > 0 => pc = "done" /\ raisedIn = "none" /\ page_no > LastPage /\ ~pdfOpen

\* C10 witness: the request fails with rows accumulated and a page to go
C10_Witness ==
  /\ raisedIn = "generate_content" /\ all_rows # <<>> /\ page_no < LastPage
  /\ page_no < Len(doc)

====
